---------------------------- MODULE Spec2Model ----------------------------
(***************************************************************************)
(* A model of BAC0/core/devices/Points.py: one Point (base class or one of *)
(* NumericPoint, BooleanPoint, EnumPoint), its history, its simulated and  *)
(* overridden flags, and the commands it sends to its device's network.    *)
(*                                                                         *)
(* Python strings are sequences of one-character strings, so that          *)
(* formatting ('%s' %, str), parsing (float, int) and the substring test   *)
(* ('Value' in type) are computed, not assumed.                            *)
(***************************************************************************)
EXTENDS Integers, Sequences, FiniteSets, TLC

(***************************************************************************)
(* Bounds of the model.                                                    *)
(***************************************************************************)
\* reads of the collaborator per behaviour (the history is unbounded in the code)
MaxReads == 2
\* the longest state table of an EnumPoint
MaxStates == 2

(***************************************************************************)
(* Python values.  A float is held as a count of halves (h = 2 * x), which *)
(* represents exactly the floats the model uses (8.5, 21.5, 5.0, ...).     *)
(***************************************************************************)
PyNone == [k |-> "None", n |-> 0, c |-> <<>>]
PyInt(i) == [k |-> "int", n |-> i, c |-> <<>>]
PyFloat(h) == [k |-> "float", n |-> h, c |-> <<>>]
PyStr(s) == [k |-> "str", n |-> 0, c |-> s]
PyBool(b) == [k |-> "bool", n |-> IF b THEN 1 ELSE 0, c |-> <<>>]

\* the string literals of the source
s_empty == <<>>
s_presentValue == <<"p","r","e","s","e","n","t","V","a","l","u","e">>
s_relinquishDefault ==
    <<"r","e","l","i","n","q","u","i","s","h","D","e","f","a","u","l","t">>
s_null == <<"n","u","l","l">>
s_active == <<"a","c","t","i","v","e">>
s_inactive == <<"i","n","a","c","t","i","v","e">>
s_Value == <<"V","a","l","u","e">>
s_Output == <<"O","u","t","p","u","t">>
s_None == <<"N","o","n","e">>
s_True == <<"T","r","u","e">>
s_False == <<"F","a","l","s","e">>

Digits == <<"0","1","2","3","4","5","6","7","8","9">>
IsDigit(ch) == \E d \in 1..10 : Digits[d] = ch
DigitVal(ch) == (CHOOSE d \in 1..10 : Digits[d] = ch) - 1

\* str(n) of a natural number and of an int
RECURSIVE NatStr(_)
NatStr(n) == IF n < 10 THEN <<Digits[n + 1]>>
             ELSE NatStr(n \div 10) \o <<Digits[(n % 10) + 1]>>
IntStr(n) == IF n < 0 THEN <<"-">> \o NatStr(-n) ELSE NatStr(n)
\* str(x) of a float x = h / 2: always with a fractional digit ("8.0", "8.5")
FloatStr(h) ==
    LET a == IF h < 0 THEN -h ELSE h
    IN  (IF h < 0 THEN <<"-">> ELSE <<>>) \o NatStr(a \div 2)
        \o <<".">> \o (IF a % 2 = 1 THEN <<"5">> ELSE <<"0">>)

\* str(v), also what '%s' % v produces
Str(v) ==
    CASE v.k = "None" -> s_None
      [] v.k = "int" -> IntStr(v.n)
      [] v.k = "float" -> FloatStr(v.n)
      [] v.k = "bool" -> (IF v.n = 1 THEN s_True ELSE s_False)
      [] v.k = "str" -> v.c

\* the value of a non-empty string of digits
RECURSIVE DigitsVal(_)
DigitsVal(s) == IF Len(s) = 0 THEN 0
                ELSE 10 * DigitsVal(SubSeq(s, 1, Len(s) - 1)) + DigitVal(s[Len(s)])
IsDigits(s) == Len(s) > 0 /\ \A i \in 1..Len(s) : IsDigit(s[i])

Unsigned(s) == IF Len(s) > 0 /\ s[1] = "-" THEN SubSeq(s, 2, Len(s)) ELSE s
Sign(s) == IF Len(s) > 0 /\ s[1] = "-" THEN -1 ELSE 1
DotAt(s) == IF \E i \in 1..Len(s) : s[i] = "."
            THEN CHOOSE i \in 1..Len(s) : s[i] = "." /\ \A j \in 1..(i - 1) : s[j] # "."
            ELSE 0

\* float(s) of a string: [sign] digits [. (0|5)], the decimal literals whose
\* value is a whole number of halves; every other text is a ValueError
ParseFloat(s) ==
    LET u == Unsigned(s)
        d == DotAt(u)
        ip == IF d = 0 THEN u ELSE SubSeq(u, 1, d - 1)
        fp == IF d = 0 THEN <<>> ELSE SubSeq(u, d + 1, Len(u))
    IN  IF IsDigits(ip) /\ (fp = <<>> \/ fp = <<"0">> \/ fp = <<"5">>)
        THEN [exc |-> "none",
              n |-> Sign(s) * (2 * DigitsVal(ip) + (IF fp = <<"5">> THEN 1 ELSE 0))]
        ELSE [exc |-> "ValueError", n |-> 0]

\* float(v): halves, or the exception float() raises
ToFloat(v) ==
    CASE v.k = "None" -> [exc |-> "TypeError", n |-> 0]
      [] v.k = "int" -> [exc |-> "none", n |-> 2 * v.n]
      [] v.k = "bool" -> [exc |-> "none", n |-> 2 * v.n]
      [] v.k = "float" -> [exc |-> "none", n |-> v.n]
      [] v.k = "str" -> ParseFloat(v.c)

\* int(v): truncation toward zero of a float, a signed digit string parsed,
\* or the exception int() raises
ToInt(v) ==
    CASE v.k = "None" -> [exc |-> "TypeError", n |-> 0]
      [] v.k = "int" -> [exc |-> "none", n |-> v.n]
      [] v.k = "bool" -> [exc |-> "none", n |-> v.n]
      [] v.k = "float" -> [exc |-> "none",
                           n |-> IF v.n < 0 THEN -((-v.n) \div 2) ELSE v.n \div 2]
      [] v.k = "str" -> IF IsDigits(Unsigned(v.c))
                        THEN [exc |-> "none", n |-> Sign(v.c) * DigitsVal(Unsigned(v.c))]
                        ELSE [exc |-> "ValueError", n |-> 0]

\* pat in s, for Python strings
Contains(pat, s) ==
    \E i \in 0..(Len(s) - Len(pat)) : SubSeq(s, i + 1, i + Len(pat)) = pat

\* ' '.join(fields): what a '%s %s ... %s' format produces
RECURSIVE Join(_)
Join(fields) == IF Len(fields) = 0 THEN <<>>
                ELSE IF Len(fields) = 1 THEN fields[1]
                ELSE fields[1] \o <<" ">> \o Join(Tail(fields))


(***************************************************************************)
(* The inputs the model draws from.                                        *)
(***************************************************************************)
\* device.addr of the owning device
DeviceAddr == <<"2",":","5">>
PointAddresses == {12}
\* properties.type: names with "Value", with "Output", with neither, with both
s_analog == <<"a","n","a","l","o","g">>
s_binary == <<"b","i","n","a","r","y">>
s_multiState == <<"m","u","l","t","i","S","t","a","t","e">>
s_Input == <<"I","n","p","u","t">>
s_analogValue == s_analog \o s_Value
s_analogOutput == s_analog \o s_Output
s_analogInput == s_analog \o s_Input
s_analogOutputValue == s_analog \o s_Output \o s_Value
\* the type names a point of each class is built with
PointTypes(v) ==
    CASE v = "NumericPoint" ->
             {s_analogValue, s_analogOutput, s_analogInput, s_analogOutputValue}
      [] v = "BooleanPoint" ->
             {s_binary \o s_Value, s_binary \o s_Output, s_binary \o s_Input}
      [] v = "EnumPoint" -> {s_multiState \o s_Input}
      [] OTHER -> {s_analogValue}
Variants == {"Point", "NumericPoint", "BooleanPoint", "EnumPoint"}

\* units_state: absent, a unit label, or a list of state labels
NoUnits == [k |-> "None", c |-> <<>>, l |-> <<>>]
UnitLabel(s) == [k |-> "str", c |-> s, l |-> <<>>]
StateList(l) == [k |-> "list", c |-> <<>>, l |-> l]
s_degC == <<"d","e","g","C">>
StateLabels == << <<"o","f","f">>, <<"l","o","w">>, <<"h","i","g","h">> >>
UnitsStates(v) ==
    CASE v = "NumericPoint" -> {UnitLabel(s_degC)}
      [] v = "EnumPoint" -> {StateList(SubSeq(StateLabels, 1, n)) : n \in 1..MaxStates}
      [] OTHER -> {NoUnits}

s_abc == <<"a","b","c">>
s_unknown == <<"u","n","k","n","o","w","n">>
\* what device.read may return for a point of each variant; for an EnumPoint
\* the indices around both ends of its state table us
RawValues(v, us) ==
    CASE v = "BooleanPoint" -> {PyStr(s_active), PyStr(s_inactive), PyStr(s_unknown)}
      [] v = "EnumPoint" ->
             {PyInt(i) : i \in {-1, 0, 1, Len(us.l), Len(us.l) + 1}}
      [] OTHER -> {PyFloat(43), PyInt(7)}
\* presentValue given to the constructor
SeedValues(v) ==
    CASE v = "NumericPoint" -> {PyNone, PyFloat(43)}
      [] OTHER -> {PyNone}
\* values written by the client
WriteValues == {PyFloat(10), PyStr(s_abc)}
SetValues == {PyFloat(10), PyStr(<<"7">>), PyStr(s_abc), PyNone}
\* priorities given to write(): in range, out of range, fractional, text, None, ''
Priorities ==
    {PyInt(0), PyInt(1), PyInt(8), PyInt(16), PyInt(17), PyFloat(17),
     PyStr(<<"8">>), PyStr(s_abc), PyNone, PyStr(s_empty)}

MinPriority == 1
MaxPriority == 16
OvrPriority == 8

VARIABLES
    variant,            \* the class of the point
    ptype,              \* properties.type
    address,            \* properties.address
    units_state,        \* properties.units_state
    simulated,          \* properties.simulated
    overridden,         \* properties.overridden
    history_timestamp,  \* _history.timestamp
    history_value,      \* _history.value
    boolCache,          \* _key and _boolKey of a BooleanPoint
    clock,              \* what datetime.now() returns
    last,               \* the last call: operation, arguments, outcome
    sent,               \* the commands the network received in the last call
    reads,              \* the device.read calls issued in the last call
    series,             \* the Series the last call returned, if it was history
    pc,                 \* where each thread stands in a call of value
    local,              \* the locals of each thread: res, the now() it took, its read
    lock,               \* the thread inside the external mutual-exclusion wrapper
    useLock,            \* whether the callers wrap the point in that wrapper
    stamp_by,           \* the read that appended each entry of _history.timestamp
    value_by,           \* the read that appended each entry of _history.value
    nread               \* the reads the threads have issued

vars == <<variant, ptype, address, units_state, simulated, overridden,
          history_timestamp, history_value, boolCache, clock, last, sent,
          reads, series, pc, local, lock, useLock, stamp_by, value_by, nread>>

config == <<variant, ptype, address, units_state>>
history == <<history_timestamp, history_value>>
flags == <<simulated, overridden>>
threads == <<pc, local, lock, useLock, stamp_by, value_by, nread>>

\* the threads that call value concurrently
NumThreads == 2
Threads == 1..NumThreads
NoLocal == [res |-> PyNone, now |-> 0, rd |-> 0]
\* no thread is inside a call
ThreadsIdle ==
    /\ pc = [t \in Threads |-> "idle"]
    /\ local = [t \in Threads |-> NoLocal]
    /\ lock = 0
    /\ stamp_by = <<0>>
    /\ value_by = <<0>>
    /\ nread = 0

NoCache == [set |-> FALSE, key |-> 0, boolKey |-> FALSE]
Call(op, value, priority, status, result) ==
    [op |-> op, value |-> value, priority |-> priority,
     status |-> status, result |-> result]

(***************************************************************************)
(* Point.__init__ (also reached through the three subclasses).             *)
(***************************************************************************)
Init ==
    /\ variant \in Variants
    /\ ptype \in PointTypes(variant)
    /\ address \in PointAddresses
    /\ units_state \in UnitsStates(variant)
    /\ clock = 0
    /\ history_timestamp = <<clock>>
    /\ history_value \in {<<v>> : v \in SeedValues(variant)}
    /\ simulated = FALSE
    /\ overridden = FALSE
    /\ boolCache = NoCache
    /\ last = Call("init", PyNone, PyNone, "ok", PyNone)
    /\ sent = <<>>
    /\ reads = 0
    /\ series = <<>>
    /\ useLock = FALSE
    /\ ThreadsIdle

(***************************************************************************)
(* The command methods.  Each is an operator giving the effect of one call *)
(* on the flags and on the network: netok is whether the network           *)
(* collaborator returns (TRUE) or raises (FALSE).                          *)
(***************************************************************************)
Effect(status, cmds) ==
    [status |-> status, sent |-> cmds, simulated |-> simulated,
     overridden |-> overridden]
Raise(exc) == Effect(exc, <<>>)
\* one call of an entry point of device.network with one command string
Network(entry, cmd, netok) ==
    Effect(IF netok THEN "ok" ELSE "NetworkError", <<[entry |-> entry, cmd |-> cmd]>>)

\* '- %s' % priority
\* a suffix that names the priority as a whole number
PrioritySuffix_int(priority) == <<"-", " ">> \o IntStr(ToInt(priority).n)
PrioritySuffix(priority) == <<"-", " ">> \o Str(priority)

\* the test of Point.write on a given priority
PriorityInRange(priority) ==
    /\ ToFloat(priority).n >= 2 * MinPriority
    /\ ToFloat(priority).n <= 2 * MaxPriority

\* write that marks the point overridden when it writes at the override level
Point_write_marks(value, prop, priority, netok) ==
    IF priority # PyStr(s_empty) /\ ToFloat(priority).exc # "none"
    THEN Raise(ToFloat(priority).exc)
    ELSE IF priority # PyStr(s_empty) /\ ~PriorityInRange(priority)
    THEN Raise("ValueError")
    ELSE [Network("write",
                  Join(<<DeviceAddr, ptype, Str(PyInt(address)), prop, Str(value),
                         IF priority # PyStr(s_empty)
                         THEN PrioritySuffix(priority) ELSE Str(priority)>>),
                  netok)
          EXCEPT !.overridden = (overridden \/ priority = PyInt(OvrPriority))]

Point_write(value, prop, priority, netok) ==
    IF priority # PyStr(s_empty) /\ ToFloat(priority).exc # "none"
    THEN Raise(ToFloat(priority).exc)
    ELSE IF priority # PyStr(s_empty) /\ ~PriorityInRange(priority)
    THEN Raise("ValueError")
    ELSE Network("write",
                 Join(<<DeviceAddr, ptype, Str(PyInt(address)), prop, Str(value),
                        IF priority # PyStr(s_empty)
                        THEN PrioritySuffix(priority) ELSE Str(priority)>>),
                 netok)

Point_default(value, netok) ==
    Point_write(value, s_relinquishDefault, PyStr(s_empty), netok)

\* sim that takes the point out of the overridden state
Point_sim_exclusive(value, netok) ==
    LET e == Network("sim",
                     Join(<<DeviceAddr, ptype, Str(PyInt(address)),
                            s_presentValue, Str(value)>>),
                     netok)
    IN  IF e.status = "ok"
        THEN [e EXCEPT !.simulated = TRUE, !.overridden = FALSE]
        ELSE e
\* sim that marks the point simulated before the network has answered
Point_sim_flagfirst(value, netok) ==
    LET e == Network("sim",
                     Join(<<DeviceAddr, ptype, Str(PyInt(address)),
                            s_presentValue, Str(value)>>),
                     netok)
    IN  [e EXCEPT !.simulated = TRUE]

Point_sim(value, netok) ==
    LET e == Network("sim",
                     Join(<<DeviceAddr, ptype, Str(PyInt(address)),
                            s_presentValue, Str(value)>>),
                     netok)
    IN  IF e.status = "ok"
        THEN [e EXCEPT !.simulated = TRUE]
        ELSE e

\* release that returns the point to Normal, clearing both flags
Point_release_reset(netok) ==
    LET e == Network("release",
                     Join(<<DeviceAddr, ptype, Str(PyInt(address))>>), netok)
    IN  IF e.status = "ok"
        THEN [e EXCEPT !.simulated = FALSE, !.overridden = FALSE]
        ELSE e

Point_release(netok) ==
    LET e == Network("release",
                     Join(<<DeviceAddr, ptype, Str(PyInt(address))>>), netok)
    IN  IF e.status = "ok"
        THEN [e EXCEPT !.simulated = FALSE]
        ELSE e

\* ovr that marks the point overridden before the write has returned
Point_ovr_flagfirst(value, netok) ==
    LET e == Point_write(value, s_presentValue, PyInt(OvrPriority), netok)
    IN  [e EXCEPT !.overridden = TRUE]

Point_ovr(value, netok) ==
    LET e == Point_write(value, s_presentValue, PyInt(OvrPriority), netok)
    IN  IF e.status = "ok"
        THEN [e EXCEPT !.overridden = TRUE]
        ELSE e

\* auto that writes the sentinel without naming the priority slot
Point_auto_plain(netok) ==
    LET e == Point_write(PyStr(s_null), s_presentValue, PyStr(s_empty), netok)
    IN  IF e.status = "ok"
        THEN [e EXCEPT !.overridden = FALSE]
        ELSE e

Point_auto(netok) ==
    LET e == Point_write(PyStr(s_null), s_presentValue, PyInt(OvrPriority), netok)
    IN  IF e.status = "ok"
        THEN [e EXCEPT !.overridden = FALSE]
        ELSE e

Point_setitem(value, netok) ==
    IF Contains(s_Value, ptype) THEN Point_write(value, s_presentValue, PyStr(s_empty), netok)
    ELSE IF Contains(s_Output, ptype) THEN Point_ovr(value, netok)
    ELSE Point_sim(value, netok)

\* Point._set, and NumericPoint._set, the only subclass that defines one
Point_set(value, netok) == Raise("Exception")
NumericPoint_set(value, netok) ==
    IF ToFloat(value).exc # "none" THEN Raise(ToFloat(value).exc)
    ELSE Point_setitem(value, netok)
DoSet(value, netok) ==
    IF variant = "NumericPoint" THEN NumericPoint_set(value, netok)
    ELSE Point_set(value, netok)

\* a command call as a step: the call record, the commands, the flags
Command(op, value, priority, e) ==
    /\ last' = Call(op, value, priority, e.status, PyNone)
    /\ sent' = e.sent
    /\ reads' = 0
    /\ simulated' = e.simulated
    /\ overridden' = e.overridden
    /\ series' = <<>>
    /\ UNCHANGED <<config, history, boolCache, clock, threads>>

Write ==
    \E value \in {PyFloat(10)}, priority \in Priorities, netok \in BOOLEAN :
        Command("write", value, priority,
                Point_write(value, s_presentValue, priority, netok))
Default ==
    \E value \in WriteValues, netok \in BOOLEAN :
        Command("default", value, PyNone, Point_default(value, netok))
Sim ==
    \E value \in WriteValues, netok \in BOOLEAN :
        Command("sim", value, PyNone, Point_sim(value, netok))
Release ==
    \E netok \in BOOLEAN :
        Command("release", PyNone, PyNone, Point_release(netok))
Ovr ==
    \E value \in WriteValues, netok \in BOOLEAN :
        Command("ovr", value, PyNone, Point_ovr(value, netok))
Auto ==
    \E netok \in BOOLEAN :
        Command("auto", PyNone, PyNone, Point_auto(netok))
SetItem ==
    \E value \in WriteValues, netok \in BOOLEAN :
        Command("_setitem", value, PyNone, Point_setitem(value, netok))
Set ==
    \E value \in SetValues, netok \in BOOLEAN :
        Command("_set", value, PyNone, DoSet(value, netok))

(***************************************************************************)
(* The accessors.  res is what device.read returns, readok whether it      *)
(* returns (TRUE) or raises (FALSE), and dt how far the clock has moved    *)
(* when datetime.now() is called after the read; the steps below take one  *)
(* tick per read.                                                          *)
(***************************************************************************)
Reading(status, result, ts, vs, cache, now, n) ==
    [status |-> status, result |-> result, history_timestamp |-> ts,
     history_value |-> vs, boolCache |-> cache, clock |-> now, reads |-> n,
     series |-> <<>>]
ReadFailed ==
    Reading("ReadError", PyNone, history_timestamp, history_value, boolCache, clock, 1)

\* value that does not record a read equal to the last recorded value
Point_value_dedup(res, readok, dt) ==
    IF ~readok THEN ReadFailed
    ELSE IF res = history_value[Len(history_value)]
    THEN Reading("ok", res, history_timestamp, history_value,
                 boolCache, clock + dt, 1)
    ELSE Reading("ok", res,
                 Append(history_timestamp, clock + dt),
                 Append(history_value, res),
                 boolCache, clock + dt, 1)

\* value that records the newest reading first
Point_value_prepend(res, readok, dt) ==
    IF ~readok THEN ReadFailed
    ELSE Reading("ok", res,
                 <<clock + dt>> \o history_timestamp,
                 <<res>> \o history_value,
                 boolCache, clock + dt, 1)

Point_value(res, readok, dt) ==
    IF ~readok THEN ReadFailed
    ELSE Reading("ok", res,
                 Append(history_timestamp, clock + dt),
                 Append(history_value, res),
                 boolCache, clock + dt, 1)

\* the _key / _boolKey that BooleanPoint.value derives from a raw result
BooleanPoint_value_key(res) ==
    IF res = PyStr(s_inactive)
    THEN [set |-> TRUE, key |-> 0, boolKey |-> FALSE]
    ELSE [set |-> TRUE, key |-> 1, boolKey |-> TRUE]

BooleanPoint_value(res, readok, dt) ==
    IF ~readok THEN ReadFailed
    ELSE Reading("ok", res,
                 Append(history_timestamp, clock + dt),
                 Append(history_value, res),
                 BooleanPoint_value_key(res), clock + dt, 1)

\* self.value, by the class of the point
DoValue(res, readok, dt) ==
    IF variant = "BooleanPoint" THEN BooleanPoint_value(res, readok, dt)
    ELSE Point_value(res, readok, dt)

\* the _key / _boolKey that BooleanPoint.boolValue derives from a raw result
\* boolValue that decodes as value does: everything but "inactive" is true
BooleanPoint_boolValue_key_notinactive(res) ==
    IF res = PyStr(s_inactive)
    THEN [set |-> TRUE, key |-> 0, boolKey |-> FALSE]
    ELSE [set |-> TRUE, key |-> 1, boolKey |-> TRUE]
BooleanPoint_boolValue_key(res) ==
    IF res = PyStr(s_active)
    THEN [set |-> TRUE, key |-> 1, boolKey |-> TRUE]
    ELSE [set |-> TRUE, key |-> 0, boolKey |-> FALSE]

BooleanPoint_boolValue(res, readok, dt) ==
    LET r == BooleanPoint_value(res, readok, dt)
    IN  IF r.status # "ok" THEN r
        ELSE [r EXCEPT !.boolCache = BooleanPoint_boolValue_key(r.result),
                       !.result = PyBool(BooleanPoint_boolValue_key(r.result).boolKey)]

\* units_state[i] with Python's indexing of a list of n items: -n .. n-1
Subscript(us, i) ==
    IF us.k = "None" THEN [exc |-> "TypeError", item |-> PyNone]
    ELSE IF us.k = "str"
    THEN (IF i >= -Len(us.c) /\ i < Len(us.c)
          THEN [exc |-> "none",
                item |-> PyStr(<<us.c[IF i >= 0 THEN i + 1 ELSE Len(us.c) + i + 1]>>)]
          ELSE [exc |-> "IndexError", item |-> PyNone])
    ELSE (IF i >= -Len(us.l) /\ i < Len(us.l)
          THEN [exc |-> "none",
                item |-> PyStr(us.l[IF i >= 0 THEN i + 1 ELSE Len(us.l) + i + 1])]
          ELSE [exc |-> "IndexError", item |-> PyNone])

\* enumValue that records the reading only when it names a state
EnumPoint_enumValue_checked(res, readok, dt) ==
    LET r == DoValue(res, readok, dt)
    IN  IF r.status # "ok" THEN r
        ELSE IF ToInt(r.result).exc # "none"
        THEN [r EXCEPT !.status = ToInt(r.result).exc, !.result = PyNone]
        ELSE LET item == Subscript(units_state, ToInt(r.result).n - 1)
             IN  IF item.exc # "none"
                 THEN [ReadFailed EXCEPT !.status = item.exc]
                 ELSE [r EXCEPT !.result = item.item]

EnumPoint_enumValue(res, readok, dt) ==
    LET r == DoValue(res, readok, dt)
    IN  IF r.status # "ok" THEN r
        ELSE IF ToInt(r.result).exc # "none"
        THEN [r EXCEPT !.status = ToInt(r.result).exc, !.result = PyNone]
        ELSE LET item == Subscript(units_state, ToInt(r.result).n - 1)
             IN  IF item.exc # "none"
                 THEN [r EXCEPT !.status = item.exc, !.result = PyNone]
                 ELSE [r EXCEPT !.result = item.item]

\* an accessor call as a step; arg is the raw result of the read, kept in
\* the call record for the properties that relate it to the outcome
Access(op, arg, r) ==
    /\ last' = Call(op, arg, PyNone, r.status, r.result)
    /\ sent' = <<>>
    /\ reads' = r.reads
    /\ history_timestamp' = r.history_timestamp
    /\ history_value' = r.history_value
    /\ boolCache' = r.boolCache
    /\ clock' = r.clock
    /\ series' = r.series
    /\ UNCHANGED <<config, flags, threads>>

CanRead == Len(history_value) < 1 + MaxReads
\* the time a read takes
Tick == 1

Value ==
    /\ CanRead
    /\ \E res \in RawValues(variant, units_state) :
           Access("value", res, DoValue(res, TRUE, Tick))
ValueFails ==
    /\ CanRead
    /\ Access("value", PyNone, DoValue(PyNone, FALSE, Tick))
BoolValue ==
    /\ CanRead
    /\ variant = "BooleanPoint"
    /\ \E res \in RawValues(variant, units_state), readok \in BOOLEAN :
           Access("boolValue", IF readok THEN res ELSE PyNone,
                  BooleanPoint_boolValue(res, readok, Tick))
EnumValue ==
    /\ CanRead
    /\ variant = "EnumPoint"
    /\ \E res \in RawValues(variant, units_state), readok \in BOOLEAN :
           Access("enumValue", IF readok THEN res ELSE PyNone,
                  EnumPoint_enumValue(res, readok, Tick))

\* Point.lastValue
\* lastValue that returns the oldest entry
Point_lastValue_first ==
    Reading("ok", history_value[1], history_timestamp,
            history_value, boolCache, clock, 0)
Point_lastValue ==
    Reading("ok", history_value[Len(history_value)], history_timestamp,
            history_value, boolCache, clock, 0)
LastValue == Access("lastValue", PyNone, Point_lastValue)

\* pd.Series(values, index=timestamps): the values indexed by the timestamps,
\* or the ValueError pandas raises when the lengths differ
MakeSeries(vs, ts) ==
    IF Len(vs) = Len(ts)
    THEN [exc |-> "none", s |-> [i \in 1..Len(vs) |-> <<ts[i], vs[i]>>]]
    ELSE [exc |-> "ValueError", s |-> <<>>]
\* Point.history
Point_history ==
    LET his_table == MakeSeries(history_value, history_timestamp)
    IN  [Reading(IF his_table.exc = "none" THEN "ok" ELSE his_table.exc, PyNone,
                 history_timestamp, history_value, boolCache, clock, 0)
         EXCEPT !.series = his_table.s]
History == Access("history", PyNone, Point_history)

\* Point.units and the units of the three subclasses
Point_units == [status |-> "Exception", result |-> PyNone]
NumericPoint_units ==
    [status |-> "ok",
     result |-> IF units_state.k = "str" THEN PyStr(units_state.c) ELSE PyNone]
BooleanPoint_units == [status |-> "ok", result |-> PyNone]
EnumPoint_units == [status |-> "ok", result |-> PyNone]
DoUnits ==
    CASE variant = "NumericPoint" -> NumericPoint_units
      [] variant = "BooleanPoint" -> BooleanPoint_units
      [] variant = "EnumPoint" -> EnumPoint_units
      [] OTHER -> Point_units
Units ==
    Access("units", PyNone,
           Reading(DoUnits.status, DoUnits.result, history_timestamp,
                   history_value, boolCache, clock, 0))

Next ==
    \/ Write
    \/ Default
    \/ Sim
    \/ Release
    \/ Ovr
    \/ Auto
    \/ SetItem
    \/ Set
    \/ Value
    \/ ValueFails
    \/ BoolValue
    \/ EnumValue
    \/ LastValue
    \/ History
    \/ Units

Spec == Init /\ [][Next]_vars

(***************************************************************************)
(* Concurrent callers.  Threads call value on one point; a call is the     *)
(* statements of Point.value (BooleanPoint.value), and the interpreter may *)
(* switch threads between any two of them: the read, datetime.now(), the   *)
(* append to _history.timestamp, the append to _history.value.  A list     *)
(* append is one atomic step of the interpreter.  With useLock the callers *)
(* hold an external lock around the whole call.                            *)
(***************************************************************************)
\* the external wrapper: enter when the lock is free, leave it free
CanEnter(t) == useLock => lock = 0
LockEntered(t) == IF useLock THEN t ELSE lock
LockLeft(t) == IF lock = t THEN 0 ELSE lock
Busy == {t \in Threads : pc[t] # "idle"}
AllIdle == Busy = {}

InitThreads ==
    /\ variant \in {"NumericPoint", "BooleanPoint"}
    /\ ptype \in PointTypes(variant)
    /\ address \in PointAddresses
    /\ units_state \in UnitsStates(variant)
    /\ clock = 0
    /\ history_timestamp = <<clock>>
    /\ history_value \in {<<v>> : v \in SeedValues(variant)}
    /\ simulated = FALSE
    /\ overridden = FALSE
    /\ boolCache = NoCache
    /\ last = Call("init", PyNone, PyNone, "ok", PyNone)
    /\ sent = <<>>
    /\ reads = 0
    /\ series = <<>>
    /\ useLock \in BOOLEAN
    /\ ThreadsIdle

single == <<config, flags, last, sent, reads, series, useLock>>

\* a thread begins a call of value
T_Call(t) ==
    /\ pc[t] = "idle"
    /\ nread + Cardinality(Busy) < MaxReads
    /\ CanEnter(t)
    /\ pc' = [pc EXCEPT ![t] = "read"]
    /\ lock' = LockEntered(t)
    /\ UNCHANGED <<single, history, boolCache, clock, local, stamp_by,
                   value_by, nread>>

\* res = self.properties.device.read(self.properties.name)
T_Read(t) ==
    /\ pc[t] = "read"
    /\ \E res \in RawValues(variant, units_state) :
          /\ local' = [local EXCEPT ![t] = [res |-> res, now |-> 0, rd |-> nread + 1]]
          /\ nread' = nread + 1
          /\ pc' = [pc EXCEPT ![t] = "now"]
    /\ UNCHANGED <<single, history, boolCache, clock, lock, stamp_by, value_by>>

\* device.read raises: the call ends with no append
T_ReadFails(t) ==
    /\ pc[t] = "read"
    /\ pc' = [pc EXCEPT ![t] = "idle"]
    /\ lock' = LockLeft(t)
    /\ UNCHANGED <<single, history, boolCache, clock, local, stamp_by,
                   value_by, nread>>

\* datetime.now(), the argument of the first append
T_Now(t) ==
    /\ pc[t] = "now"
    /\ clock' = clock + Tick
    /\ local' = [local EXCEPT ![t].now = clock + Tick]
    /\ pc' = [pc EXCEPT ![t] = "stamp"]
    /\ UNCHANGED <<single, history, boolCache, lock, stamp_by, value_by, nread>>

\* self._history.timestamp.append(...)
T_AppendTimestamp(t) ==
    /\ pc[t] = "stamp"
    /\ history_timestamp' = Append(history_timestamp, local[t].now)
    /\ stamp_by' = Append(stamp_by, local[t].rd)
    /\ pc' = [pc EXCEPT ![t] = "append"]
    /\ UNCHANGED <<single, history_value, boolCache, clock, local, lock,
                   value_by, nread>>

\* an append that does not record a value equal to the last recorded one
T_AppendValue_dedup(t) ==
    /\ pc[t] = "append"
    /\ IF local[t].res = history_value[Len(history_value)]
       THEN UNCHANGED <<history_value, value_by>>
       ELSE /\ history_value' = Append(history_value, local[t].res)
            /\ value_by' = Append(value_by, local[t].rd)
    /\ pc' = [pc EXCEPT ![t] = "return"]
    /\ UNCHANGED <<single, history_timestamp, boolCache, clock, local, lock,
                   stamp_by, nread>>

\* self._history.value.append(res)
T_AppendValue(t) ==
    /\ pc[t] = "append"
    /\ history_value' = Append(history_value, local[t].res)
    /\ value_by' = Append(value_by, local[t].rd)
    /\ pc' = [pc EXCEPT ![t] = "return"]
    /\ UNCHANGED <<single, history_timestamp, boolCache, clock, local, lock,
                   stamp_by, nread>>

\* (BooleanPoint: set _key and _boolKey;) return res
T_Return(t) ==
    /\ pc[t] = "return"
    /\ boolCache' = IF variant = "BooleanPoint"
                    THEN BooleanPoint_value_key(local[t].res) ELSE boolCache
    /\ pc' = [pc EXCEPT ![t] = "idle"]
    /\ local' = [local EXCEPT ![t] = NoLocal]
    /\ lock' = LockLeft(t)
    /\ UNCHANGED <<single, history, clock, stamp_by, value_by, nread>>

NextThreads ==
    \E t \in Threads :
        \/ T_Call(t)
        \/ T_Read(t)
        \/ T_ReadFails(t)
        \/ T_Now(t)
        \/ T_AppendTimestamp(t)
        \/ T_AppendValue(t)
        \/ T_Return(t)

SpecThreads == InitThreads /\ [][NextThreads]_vars

(***************************************************************************)
(* Vocabulary of the properties.                                           *)
(***************************************************************************)
Returned == last.status = "ok"
\* the call reached the network: it returned, or the network itself raised
Issued == last.status \in {"ok", "NetworkError"}
Sp == <<" ">>
\* "<deviceAddress> <pointType> <pointAddress>"
Target == DeviceAddr \o Sp \o ptype \o Sp \o IntStr(address)
\* the priority suffix for level 8
Level8 == <<"-", " ", "8">>
WriteCommand(prop, v, suffix) ==
    [entry |-> "write", cmd |-> Target \o Sp \o prop \o Sp \o Str(v) \o Sp \o suffix]
SimCommand(v) ==
    [entry |-> "sim", cmd |-> Target \o Sp \o s_presentValue \o Sp \o Str(v)]
ReleaseCommand == [entry |-> "release", cmd |-> Target]
EndsWith(s, tail) ==
    Len(s) >= Len(tail) /\ SubSeq(s, Len(s) - Len(tail) + 1, Len(s)) = tail
SentTo(entry) == \E i \in 1..Len(sent) : sent[i].entry = entry

\* a priority the specification accepts: a number, or text that reads as
\* one, from 1 to 16
NumericPriority(p) ==
    \/ p.k \in {"int", "float"}
    \/ p.k = "str" /\ ParseFloat(p.c).exc = "none"
AcceptablePriority(p) ==
    /\ NumericPriority(p)
    /\ ToFloat(p).n >= 2 * MinPriority
    /\ ToFloat(p).n <= 2 * MaxPriority
\* the priority was given: '' is the default of the parameter
PriorityGiven == last.priority # PyStr(s_empty)

(***************************************************************************)
(* C1: write(v, priority=p) with p given issues exactly one write command  *)
(* iff p is numeric and 1 <= p <= 16; for every other p it fails with      *)
(* ValueError (InvalidPriority) and no command reaches the network.        *)
(* Violated: float(None) raises TypeError, not ValueError.                 *)
(***************************************************************************)
C1_WriteIffPriorityInRange ==
    (last.op = "write" /\ PriorityGiven) =>
        IF AcceptablePriority(last.priority)
        THEN Issued /\ Len(sent) = 1 /\ sent[1].entry = "write"
        ELSE last.status = "ValueError" /\ sent = <<>>

(***************************************************************************)
(* C2: a priority that is numeric and in range but not an integer (8.5)    *)
(* is rejected with ValueError (InvalidPriority) and nothing is sent.      *)
(* Violated: write accepts 8.5 and sends the command with "- 8.5".         *)
(***************************************************************************)
FractionalPriority(p) == p.k = "float" /\ p.n % 2 = 1
C2_FractionalPriorityRejected ==
    (last.op = "write" /\ FractionalPriority(last.priority)
        /\ AcceptablePriority(last.priority)) =>
        last.status = "ValueError" /\ sent = <<>>

(***************************************************************************)
(* C3: every call of `value` that returns issues one collaborator read,    *)
(* lengthens both history sequences by one entry, and the value appended   *)
(* and returned is the raw value the collaborator returned (last'.value);  *)
(* so after one read of v on a fresh point lastValue = v and the history   *)
(* holds 2 entries.                                                        *)
(***************************************************************************)
C3_ValueAppendsRawRead ==
    [][(last'.op = "value" /\ last'.status = "ok") =>
          /\ reads' = 1
          /\ history_value' = Append(history_value, last'.value)
          /\ Len(history_timestamp') = Len(history_timestamp) + 1
          /\ last'.result = last'.value
          /\ history_value'[Len(history_value')] = last'.value
          /\ (Len(history_value) = 1 => Len(history_value') = 2)]_vars
C3_Witness ==
    /\ variant = "NumericPoint"
    /\ last.op = "value" /\ Returned
    /\ last.result = PyFloat(43)
    /\ Len(history_value) = 2 /\ history_value[2] = PyFloat(43)

(***************************************************************************)
(* C4: _set(v) and _setitem(v) route by the type name, for a point of any  *)
(* variant: "Value" in the name -> one plain write without priority        *)
(* suffix; otherwise "Output" in the name -> one write with the priority-8 *)
(* suffix; otherwise one sim command.  (v is a value _set accepts.)        *)
(* Violated: BooleanPoint and EnumPoint inherit Point._set, which raises.  *)
(***************************************************************************)
C4_SetRoutesByType ==
    (\/ last.op = "_setitem"
     \/ last.op = "_set" /\ ToFloat(last.value).exc = "none") =>
        /\ Issued
        /\ sent = << IF Contains(s_Value, ptype)
                     THEN WriteCommand(s_presentValue, last.value, <<>>)
                     ELSE IF Contains(s_Output, ptype)
                     THEN WriteCommand(s_presentValue, last.value, Level8)
                     ELSE SimCommand(last.value) >>

(***************************************************************************)
(* C5: enumValue on a state table of size n and a raw read i returns       *)
(* states[i-1] when 1 <= i <= n and fails with IndexError when i <= 0 or   *)
(* i > n.                                                                  *)
(* Violated: for i = 0 the subscript is -1, which Python reads as the last *)
(* label.                                                                  *)
(***************************************************************************)
C5_EnumValueInRangeOnly ==
    (last.op = "enumValue" /\ last.status # "ReadError") =>
        IF 1 <= last.value.n /\ last.value.n <= Len(units_state.l)
        THEN Returned /\ last.result = PyStr(units_state.l[last.value.n])
        ELSE last.status = "IndexError"

(***************************************************************************)
(* C6 as stated: after sim() the point is Simulated, after ovr()           *)
(* Overridden, after release() Normal and after auto() Normal, Normal      *)
(* being simulated = false and overridden = false.                         *)
(* Violated: release() after ovr() leaves overridden = true.               *)
(***************************************************************************)
Normal == ~simulated /\ ~overridden
C6_Original ==
    Returned =>
        /\ last.op = "sim" => simulated
        /\ last.op = "ovr" => overridden
        /\ last.op = "release" => Normal
        /\ last.op = "auto" => Normal

(***************************************************************************)
(* C6 amended: the point starts Normal; sim() sets simulated, release()    *)
(* clears simulated, ovr() sets overridden, auto() clears overridden, and  *)
(* each leaves the other flag as it was: release() leads to Normal iff     *)
(* the point was not overridden, auto() iff it was not simulated.          *)
(***************************************************************************)
C6_FlagTransitions ==
    /\ (last.op = "init" => Normal)
    /\ [][last'.status = "ok" =>
            /\ last'.op = "sim" => simulated' /\ overridden' = overridden
            /\ last'.op = "release" => ~simulated' /\ overridden' = overridden
            /\ last'.op = "ovr" => overridden' /\ simulated' = simulated
            /\ last'.op = "auto" => ~overridden' /\ simulated' = simulated]_vars
C6_Witness ==
    last.op = "release" /\ Returned /\ overridden /\ ~simulated

(***************************************************************************)
(* C7: in every state sim, ovr, release and auto return whenever the       *)
(* network does (no flag blocks them); sim() on an overridden point and    *)
(* ovr() on a simulated point leave both flags true; sim() on a simulated  *)
(* point and ovr() on an overridden point keep the flag.                   *)
(***************************************************************************)
C7_FlagsNotExclusive ==
    /\ [](/\ \A v \in WriteValues : Point_sim(v, TRUE).status = "ok"
          /\ \A v \in WriteValues : Point_ovr(v, TRUE).status = "ok"
          /\ Point_release(TRUE).status = "ok"
          /\ Point_auto(TRUE).status = "ok")
    /\ [][last'.status = "ok" =>
            /\ (last'.op = "sim" /\ overridden) => (simulated' /\ overridden')
            /\ (last'.op = "ovr" /\ simulated) => (simulated' /\ overridden')
            /\ (last'.op = "sim" /\ simulated) => simulated'
            /\ (last'.op = "ovr" /\ overridden) => overridden']_vars
C7_Witness ==
    simulated /\ overridden /\ last.op \in {"sim", "ovr"} /\ Returned

(***************************************************************************)
(* C8: sim(v) sends exactly the command "<addr> <type> <address>           *)
(* presentValue <v>" to the sim entry point and, when it returns, sets     *)
(* simulated; release() sends exactly "<addr> <type> <address>" to the     *)
(* release entry point and clears simulated.  simulated is false at first  *)
(* and changes in no step without a sim or release call that returned, so  *)
(* it is true iff the last such call was sim.                              *)
(***************************************************************************)
C8_SimRelease ==
    /\ (last.op = "init" => ~simulated)
    /\ [][/\ last'.op = "sim" => sent' = <<SimCommand(last'.value)>>
          /\ last'.op = "release" => sent' = <<ReleaseCommand>>
          /\ (last'.status = "ok" /\ SentTo("sim")') => simulated'
          /\ (last'.status = "ok" /\ SentTo("release")') => ~simulated'
          /\ ~(last'.status = "ok" /\ (SentTo("sim")' \/ SentTo("release")'))
                => simulated' = simulated]_vars
C8_Witness ==
    /\ last.op = "release" /\ Returned /\ ~simulated
    /\ ptype = s_binary \o s_Input
    /\ sent = <<ReleaseCommand>>

(***************************************************************************)
(* C9: ovr(v) sends exactly one write of presentValue with value v and     *)
(* the suffix "- 8" and, when it returns, sets overridden; auto() sends    *)
(* exactly one write of presentValue with value "null" and the same        *)
(* suffix and clears overridden.  overridden is false at first and changes *)
(* in no step without an ovr or auto call that returned (ovr is also       *)
(* reached from _setitem, whose only prioritized write it is).             *)
(***************************************************************************)
OvrReturned ==
    /\ Returned
    /\ \/ last.op = "ovr"
       \/ /\ last.op \in {"_set", "_setitem"}
          /\ \E i \in 1..Len(sent) : EndsWith(sent[i].cmd, Level8)
AutoReturned == Returned /\ last.op = "auto"
C9_OvrAuto ==
    /\ (last.op = "init" => ~overridden)
    /\ [][/\ last'.op = "ovr" =>
                sent' = <<WriteCommand(s_presentValue, last'.value, Level8)>>
          /\ last'.op = "auto" =>
                sent' = <<WriteCommand(s_presentValue, PyStr(s_null), Level8)>>
          /\ OvrReturned' => overridden'
          /\ AutoReturned' => ~overridden'
          /\ ~(OvrReturned' \/ AutoReturned') => overridden' = overridden]_vars
C9_Witness ==
    /\ last.op = "auto" /\ Returned /\ ~overridden
    /\ ptype = s_analogOutput
    /\ sent = <<WriteCommand(s_presentValue, PyStr(s_null), Level8)>>

(***************************************************************************)
(* C10: after BooleanPoint.value returns, the cached boolean (_boolKey)    *)
(* is true exactly when the raw result is "active", which is what          *)
(* boolValue derives from the same raw result.                             *)
(* Violated: value caches True for every result other than "inactive".     *)
(***************************************************************************)
C10_CacheIsActive ==
    (variant = "BooleanPoint" /\ last.op = "value" /\ Returned) =>
        /\ boolCache.set
        /\ boolCache.boolKey = (last.value = PyStr(s_active))
        /\ boolCache = BooleanPoint_boolValue_key(last.value)

(***************************************************************************)
(* More vocabulary: a step in which device.read returned, and prefixes.    *)
(***************************************************************************)
ReadReturned == reads = 1 /\ last.status # "ReadError"
IsPrefix(s, u) == Len(s) <= Len(u) /\ SubSeq(u, 1, Len(s)) = s
NonDecreasing(ts) == \A i \in 1..(Len(ts) - 1) : ts[i] <= ts[i + 1]
CommandOps == {"write", "default", "sim", "release", "ovr", "auto", "_setitem", "_set"}

(***************************************************************************)
(* C11: boolValue that returns has issued exactly one read through value,  *)
(* lengthening the history by that one raw result, and returns true iff    *)
(* the raw result is "active".                                             *)
(***************************************************************************)
C11_BoolValueIsActive ==
    [][(last'.op = "boolValue" /\ last'.status = "ok") =>
          /\ reads' = 1
          /\ history_value' = Append(history_value, last'.value)
          /\ Len(history_timestamp') = Len(history_timestamp) + 1
          /\ last'.result = PyBool(last'.value = PyStr(s_active))
          /\ boolCache'.boolKey = (last'.value = PyStr(s_active))]_vars
C11_Witness ==
    /\ last.op = "boolValue" /\ Returned
    /\ last.value = PyStr(s_unknown)
    /\ last.result = PyBool(FALSE)
    /\ Len(history_value) = 2

(***************************************************************************)
(* C12: when the calls of value are serialized by an external lock, then   *)
(* whenever no call is under way the history is not corrupted: every read  *)
(* that returned has exactly one timestamp and one value, the two          *)
(* sequences have the same length, and the entries at each position come   *)
(* from the same read.  Without the lock a corrupted history is reachable  *)
(* with all calls returned (C12_Witness).                                  *)
(***************************************************************************)
Once(r, by) == Cardinality({i \in 1..Len(by) : by[i] = r}) = 1
EntryLost == \E r \in 1..nread : ~Once(r, stamp_by) \/ ~Once(r, value_by)
Misaligned ==
    \E k \in 1..Len(stamp_by) : k <= Len(value_by) /\ stamp_by[k] # value_by[k]
Corrupted ==
    \/ EntryLost
    \/ Misaligned
    \/ Len(history_timestamp) # Len(history_value)
C12_SerializedCallsKeepHistory ==
    (useLock /\ AllIdle) => ~Corrupted
C12_Witness ==
    ~useLock /\ AllIdle /\ nread = MaxReads /\ Corrupted

(***************************************************************************)
(* C13: single-threaded, in every state between operations the two        *)
(* history sequences have the same length and the timestamps do not        *)
(* decrease; the log starts with one seed sample, grows by exactly one     *)
(* entry in every step in which device.read returned and is unchanged in   *)
(* every other step, and the earlier log is always a prefix of the later.  *)
(***************************************************************************)
C13_HistoryLog ==
    /\ (last.op = "init" => Len(history_value) = 1)
    /\ [](/\ Len(history_timestamp) = Len(history_value)
          /\ NonDecreasing(history_timestamp))
    /\ [][/\ IsPrefix(history_value, history_value')
          /\ IsPrefix(history_timestamp, history_timestamp')
          /\ Len(history_value') =
                Len(history_value) + (IF ReadReturned' THEN 1 ELSE 0)]_vars
C13_Witness ==
    /\ Len(history_value) = 1 + MaxReads
    /\ Len(history_timestamp) = 1 + MaxReads
    /\ ReadReturned

(***************************************************************************)
(* C14: history and lastValue issue no read and no command and change      *)
(* neither the history nor the flags; history returns the recorded values  *)
(* indexed by their timestamps, the same Series when called twice in a     *)
(* row; lastValue returns the last recorded value (the seed before any     *)
(* read).                                                                  *)
(***************************************************************************)
C14_ReadOnlyAccessors ==
    [][last'.op \in {"history", "lastValue"} =>
          /\ last'.status = "ok" /\ reads' = 0 /\ sent' = <<>>
          /\ UNCHANGED <<history_timestamp, history_value, simulated, overridden>>
          /\ last'.op = "lastValue" =>
                last'.result = history_value[Len(history_value)]
          /\ last'.op = "history" =>
                /\ Len(series') = Len(history_value)
                /\ \A i \in 1..Len(series') :
                      series'[i] = <<history_timestamp[i], history_value[i]>>
                /\ last.op = "history" => series' = series]_vars
C14_Witness ==
    /\ last.op = "lastValue" /\ Len(history_value) = 3
    /\ last.result = history_value[3]
    /\ last.result # history_value[1]

(***************************************************************************)
(* C15: NumericPoint._set(v) with a v that float() does not convert (text  *)
(* that is no number, None) fails with ValueError (InvalidValue), sends    *)
(* nothing and changes no flag; with a convertible v it delegates to       *)
(* _setitem, which issues one command.                                     *)
(* Violated: float(None) raises TypeError, not ValueError.                 *)
(***************************************************************************)
C15_SetRejectsNonNumeric ==
    [][(variant = "NumericPoint" /\ last'.op = "_set") =>
          IF ToFloat(last'.value).exc = "none"
          THEN Len(sent') = 1
          ELSE /\ last'.status = "ValueError"
               /\ sent' = <<>>
               /\ UNCHANGED <<simulated, overridden>>]_vars

(***************************************************************************)
(* C16: units and _set are supplied by NumericPoint, BooleanPoint and      *)
(* EnumPoint (a call on them does not end in the failure of the base       *)
(* class), and on the base Point they fail with its exception and send     *)
(* nothing.                                                                *)
(* Violated: BooleanPoint and EnumPoint define no _set.                    *)
(***************************************************************************)
C16_AbstractOperationsSupplied ==
    last.op \in {"units", "_set"} =>
        IF variant = "Point"
        THEN last.status = "Exception" /\ sent = <<>>
        ELSE last.status # "Exception"

(***************************************************************************)
(* C17: write(v) without priority and default(v) send one command whose    *)
(* priority suffix is empty, default naming relinquishDefault and write    *)
(* presentValue; write(v, priority=p) that is accepted sends one command   *)
(* whose suffix is the marker "- " followed by text that reads as the      *)
(* number p.                                                               *)
(***************************************************************************)
PlainPrefix(prop, v) == Target \o Sp \o prop \o Sp \o Str(v) \o Sp \o <<"-", " ">>
C17_CommandShape ==
    /\ (last.op = "default" /\ Issued) =>
          sent = <<WriteCommand(s_relinquishDefault, last.value, <<>>)>>
    /\ (last.op = "write" /\ Issued /\ ~PriorityGiven) =>
          sent = <<WriteCommand(s_presentValue, last.value, <<>>)>>
    /\ (last.op = "write" /\ Issued /\ PriorityGiven) =>
          /\ Len(sent) = 1 /\ sent[1].entry = "write"
          /\ IsPrefix(PlainPrefix(s_presentValue, last.value), sent[1].cmd)
          /\ ParseFloat(SubSeq(sent[1].cmd,
                               Len(PlainPrefix(s_presentValue, last.value)) + 1,
                               Len(sent[1].cmd)))
                = ToFloat(last.priority)
C17_Witness ==
    /\ last.op = "write" /\ Returned
    /\ last.priority = PyInt(16)
    /\ EndsWith(sent[1].cmd, <<" ", "-", " ", "1", "6">>)

(***************************************************************************)
(* C18: a call in which the collaborator raises ends with the              *)
(* collaborator's error, after one attempt, and leaves the history, the    *)
(* flags and the boolean cache as they were; a command call that fails for *)
(* any reason leaves both flags as they were.                              *)
(***************************************************************************)
C18_FailureAtomicity ==
    [][/\ last'.status = "ReadError" =>
             /\ reads' = 1 /\ sent' = <<>>
             /\ UNCHANGED <<history_timestamp, history_value, boolCache,
                            simulated, overridden>>
       /\ last'.status = "NetworkError" =>
             /\ reads' = 0 /\ Len(sent') = 1
             /\ UNCHANGED <<history_timestamp, history_value, boolCache,
                            simulated, overridden>>
       /\ (last'.op \in CommandOps /\ last'.status # "ok") =>
             UNCHANGED <<simulated, overridden>>
       /\ reads' <= 1 /\ Len(sent') <= 1]_vars
C18_Witness ==
    /\ last.op = "ovr" /\ last.status = "NetworkError"
    /\ ~overridden
    /\ Len(sent) = 1

(***************************************************************************)
(* C19: write and default change neither flag (also write at priority 8);  *)
(* sim and release leave overridden, ovr and auto leave simulated; no      *)
(* command method, _set and _setitem included, issues a read or changes    *)
(* the history.                                                            *)
(***************************************************************************)
C19_FrameConditions ==
    [][/\ last'.op \in {"write", "default"} =>
             UNCHANGED <<simulated, overridden>>
       /\ last'.op \in {"sim", "release"} => UNCHANGED overridden
       /\ last'.op \in {"ovr", "auto"} => UNCHANGED simulated
       /\ last'.op \in CommandOps =>
             /\ reads' = 0
             /\ UNCHANGED <<history_timestamp, history_value>>]_vars
C19_Witness ==
    /\ last.op = "write" /\ Returned
    /\ last.priority = PyInt(OvrPriority)
    /\ ~overridden

(***************************************************************************)
(* C20: every enumValue call whose read returns has issued exactly one     *)
(* read and appended exactly that raw index to the history, also when the  *)
(* lookup of the state label then fails with IndexError.                   *)
(***************************************************************************)
C20_EnumValueRecordsRead ==
    [][(last'.op = "enumValue" /\ last'.status # "ReadError") =>
          /\ reads' = 1
          /\ history_value' = Append(history_value, last'.value)
          /\ Len(history_timestamp') = Len(history_timestamp) + 1]_vars
C20_Witness ==
    /\ last.op = "enumValue" /\ last.status = "IndexError"
    /\ last.value.n > Len(units_state.l)
    /\ history_value[Len(history_value)] = last.value

=============================================================================
